---- MODULE Spec2Model ----
(***************************************************************************)
(* FilePerUserClientData                                                   *)
(* (tensorflow_federated/python/simulation/file_per_user_client_data.py)   *)
(*                                                                         *)
(* One object is built, by the constructor or by create_from_dir, and is   *)
(* then used through create_tf_dataset_for_client and its three            *)
(* properties.  The conversion function and the file system are the        *)
(* environment: what they return is drawn from small sets at each call.    *)
(*                                                                         *)
(* A nested structure (tf nest) is modelled as the function from the       *)
(* paths of its leaves to the leaves: the path <<>> is a bare leaf, the    *)
(* paths <<1,1>>, <<1,2>>, <<2>> are the leaves of ((l, l), l).            *)
(* The leaves are the objects the dataset API puts there: tf.DType and     *)
(* tf.TensorShape.  `x != y` on them (line 67) is the comparison of        *)
(* those classes in the TensorFlow 1.x the module imports:                 *)
(*   DType.__ne__        : the type enums differ;                          *)
(*   TensorShape.__ne__  : raises ValueError when either rank is unknown,  *)
(*                         True when the ranks differ, else the Python     *)
(*                         list comparison  self._dims != other.dims;      *)
(*   list !=             : True iff some pair of items is neither the     *)
(*                         same object nor `==`;                           *)
(*   Dimension.__eq__    : None (falsy) when either value is None.         *)
(***************************************************************************)
EXTENDS Integers, Sequences, FiniteSets, TLC

\* Bound on the number of create_tf_dataset_for_client calls of one run.
MaxCalls == 2

----------------------------------------------------------------------------
\* Leaves: tf.DType and tf.TensorShape objects.

\* The value of a tf.Dimension of unknown size.
None == 0 - 1

\* A tf.Dimension: its value, and for an unknown one the identity of the
\* Python object (oid), which the list comparison looks at before `==`.
Dimension(v, o) == [value |-> v, oid |-> o]

DType(n) == [cls |-> "DType", name |-> n, known |-> TRUE, dims |-> <<>>]

TensorShape(ds) == [cls |-> "TensorShape", name |-> "", known |-> TRUE, dims |-> ds]

\* tensor_shape.unknown_shape(): the rank itself is not known.
unknown_shape == [cls |-> "TensorShape", name |-> "", known |-> FALSE, dims |-> <<>>]

\* Dimension.__eq__ seen through PyObject_RichCompareBool(v, w, Py_EQ):
\* the same object is equal; otherwise __eq__, whose None counts as false.
DimensionEq(d, e) ==
    \/ d = e
    \/ d.value # None /\ e.value # None /\ d.value = e.value

\* The outcome of `x != y` (line 67): "False", "True" or "raise".
LeafNe(x, y) ==
    IF x.cls = "DType"
    THEN IF x.name # y.name THEN "True" ELSE "False"
    ELSE IF ~x.known \/ ~y.known THEN "raise"
    ELSE IF Len(x.dims) # Len(y.dims) THEN "True"
    ELSE IF \E i \in 1..Len(x.dims) : ~DimensionEq(x.dims[i], y.dims[i])
         THEN "True" ELSE "False"

----------------------------------------------------------------------------
\* Nested structures.

\* p comes before q in the depth-first, left-to-right order of the leaves.
RECURSIVE PathBefore(_, _)
PathBefore(p, q) ==
    IF p = <<>> \/ q = <<>> THEN FALSE
    ELSE IF Head(p) # Head(q) THEN Head(p) < Head(q)
    ELSE PathBefore(Tail(p), Tail(q))

RECURSIVE FlattenPaths(_, _)
FlattenPaths(nested, paths) ==
    IF paths = {} THEN <<>>
    ELSE LET first == CHOOSE p \in paths : \A q \in paths \ {p} : PathBefore(p, q)
         IN  <<nested[first]>> \o FlattenPaths(nested, paths \ {first})

\* nest.flatten: the leaves, depth first and left to right.
flatten(nested) == FlattenPaths(nested, DOMAIN nested)

\* nest.assert_same_structure: the same nesting, whatever the leaves.
same_structure(nested_x, nested_y) == DOMAIN nested_x = DOMAIN nested_y

Min(a, b) == IF a < b THEN a ELSE b

NoError == [exc |-> "", x |-> DType(""), y |-> DType(""), id |-> ""]

Raise(e) == [exc |-> e, x |-> DType(""), y |-> DType(""), id |-> ""]

\* The loop of lines 66-69 from position i on: the first pair that `!=`
\* does not find equal ends it, with the error of line 68 or with the
\* error `!=` itself raised.
RECURSIVE CompareFrom(_, _, _, _)
CompareFrom(flat_x, flat_y, i, client_id) ==
    IF i > Min(Len(flat_x), Len(flat_y)) THEN NoError
    ELSE LET ne == LeafNe(flat_x[i], flat_y[i])
         IN  IF ne = "raise" THEN Raise("ValueError:undefined_inequality")
             ELSE IF ne = "True"
             THEN [exc |-> "ValueError:mismatch", x |-> flat_x[i],
                   y |-> flat_y[i], id |-> client_id]
             ELSE CompareFrom(flat_x, flat_y, i + 1, client_id)

assert_nested_equal(nested_x, nested_y, client_id) ==
    IF ~same_structure(nested_x, nested_y) THEN Raise("ValueError:structure")
    ELSE CompareFrom(flatten(nested_x), flatten(nested_y), 1, client_id)

----------------------------------------------------------------------------
\* The environment: identifiers, datasets, directories.

\* Identifiers a caller may pass; file names are identifiers too.
Ids == {"a", "b", "c"}

\* The client_ids arguments of the constructor: the empty list and lists
\* of the identifiers "a" and "b".
ClientIdLists == {<<>>, <<"a">>, <<"a", "b">>, <<"b", "a">>, <<"b", "b">>}

Scalar == TensorShape(<<>>)

Vector1 == TensorShape(<<Dimension(1, 0)>>)

\* The shape (?, 3); o tells the Dimension objects of two such shapes apart.
Batch3(o) == TensorShape(<<Dimension(None, o), Dimension(3, 0)>>)

Element(t, s) == [t |-> DType(t), s |-> s]

\* What a dataset of one component may yield.
Elements1 == {Element("int32", Scalar), Element("string", Scalar),
              Element("int32", Vector1), Element("int32", Batch3(1)),
              Element("int32", Batch3(2)), Element("int32", unknown_shape)}

\* What the components of a pair may be.
Elements2 == {Element("int32", Scalar), Element("string", Vector1),
              Element("int32", unknown_shape)}

\* What the components of ((x, y), z) may be.
Elements3 == {Element("int32", Scalar), Element("string", Vector1)}

\* A tf.data.Dataset, as far as the class reads it: its two properties,
\* two nested structures of the same nesting.
Dataset(elements) ==
    [output_types  |-> [p \in DOMAIN elements |-> elements[p].t],
     output_shapes |-> [p \in DOMAIN elements |-> elements[p].s]]

Datasets ==
    {Dataset(e) : e \in [{<<>>} -> Elements1]}
    \cup {Dataset(e) : e \in [{<<1>>, <<2>>} -> Elements2]}
    \cup {Dataset(e) : e \in [{<<1, 1>>, <<1, 2>>, <<2>>} -> Elements3]}

NoDataset == [output_types |-> <<>>, output_shapes |-> <<>>]

\* What a call of the user's function does: it returns a dataset or raises.
Outcomes == {[ok |-> TRUE, ds |-> d] : d \in Datasets}
            \cup {[ok |-> FALSE, ds |-> NoDataset]}

\* Directory paths, as sequences of path components and separators.
Paths == {<<"d">>, <<"d", "/">>}

\* os.listdir: it raises, or returns the entry names in some order.
Listings == {[ok |-> FALSE, names |-> <<>>], [ok |-> TRUE, names |-> <<>>],
             [ok |-> TRUE, names |-> <<"a">>], [ok |-> TRUE, names |-> <<"a", "b">>],
             [ok |-> TRUE, names |-> <<"b", "a">>]}

\* join without the separator it inserts.
JoinNoSeparator(path, filename) == path \o <<filename>>

\* os.path.join(path, filename) for an entry name, which holds no separator.
join(path, filename) ==
    IF path = <<>> \/ path[Len(path)] = "/" THEN path \o <<filename>>
    ELSE path \o <<"/", filename>>

----------------------------------------------------------------------------
\* The conversion function held by the object.

\* The create_tf_dataset_fn argument of the constructor.
UserFn(callable) ==
    [kind |-> "function", callable |-> callable, client_ids_to_paths_dict |-> <<>>]

\* The lambda of line 104 over a file-to-dataset function.
Lambda(callable, dict) ==
    [kind |-> "lambda", callable |-> callable, client_ids_to_paths_dict |-> dict]

NoFn == [kind |-> "none", callable |-> FALSE, client_ids_to_paths_dict |-> <<>>]

\* A call of the conversion function: how it ended (exc, ds), whether the
\* function was entered and with what, whether the file function under the
\* lambda was entered and with what, whether the user's code raised.
NoCall == [exc |-> "", ds |-> NoDataset, invoked |-> FALSE, arg |-> "",
           file_invoked |-> FALSE, file_arg |-> <<>>, user_raised |-> FALSE]

\* Called with the error of the user's function replaced by another.
CalledWrapped(out) == IF out.ok THEN "" ELSE "ValueError:wrapped"

\* How a call of the user's function that ended as `out` ends for the
\* caller: no except clause surrounds lines 52 and 71.
Called(out) == IF out.ok THEN "" ELSE "CollaboratorFailure"

\* self._create_tf_dataset_fn(arg): lines 52 and 71.
Invoke(fn, arg, out) ==
    IF fn.kind = "function"
    THEN IF ~fn.callable
         THEN [NoCall EXCEPT !.exc = "TypeError:not_callable"]
         ELSE [NoCall EXCEPT !.exc = Called(out), !.ds = out.ds,
                             !.invoked = TRUE, !.arg = arg,
                             !.user_raised = ~out.ok]
    ELSE IF arg \notin DOMAIN fn.client_ids_to_paths_dict
         THEN [NoCall EXCEPT !.exc = "KeyError", !.invoked = TRUE, !.arg = arg]
         ELSE IF ~fn.callable
         THEN [NoCall EXCEPT !.exc = "TypeError:not_callable",
                             !.invoked = TRUE, !.arg = arg]
         ELSE [NoCall EXCEPT !.exc = Called(out), !.ds = out.ds,
                             !.invoked = TRUE, !.arg = arg,
                             !.user_raised = ~out.ok,
                             !.file_invoked = TRUE,
                             !.file_arg = fn.client_ids_to_paths_dict[arg]]

----------------------------------------------------------------------------
\* The object and its operations.

VARIABLES
    phase,    \* "start", "built" (a constructor returned) or "failed" (it raised)
    self,     \* the fields of the object
    calls,    \* what has been called so far: the conversion function, the file function
    nGets,    \* create_tf_dataset_for_client calls made
    lastOp,   \* the last operation, its arguments and how it ended
    made      \* the constructor that was called and its arguments

vars == <<phase, self, calls, nGets, lastOp, made>>

NoSelf == [client_ids |-> <<>>, create_tf_dataset_fn |-> NoFn,
           output_types |-> <<>>, output_shapes |-> <<>>]

\* py_typecheck.check_type(client_ids, list), line 43.
check_type(container) == IF container = "list" THEN "" ELSE "TypeError:check_type"

\* The constructor without its test for an empty list.
CheckNonEmptySkipped(client_ids) == ""

\* Lines 44-45.
CheckNonEmpty(client_ids) == IF client_ids = <<>> THEN "ValueError:empty" ELSE ""

\* py_typecheck.check_callable(create_tf_dataset_fn), line 46.
check_callable(fn) == IF fn.kind = "lambda" \/ fn.callable THEN "" ELSE "TypeError:check_callable"

\* self._client_ids[0], line 52.
FirstClientId(client_ids) == client_ids[1]

\* Lines 50-54: the probe on the first identifier.
Probe(client_ids, fn, out) ==
    IF client_ids = <<>> THEN [NoCall EXCEPT !.exc = "IndexError"]
    ELSE Invoke(fn, FirstClientId(client_ids), out)

\* __init__, lines 43-54: how it ends, the object, the call it made.
FilePerUserClientData(container, client_ids, fn, out) ==
    IF check_type(container) # ""
    THEN [exc |-> check_type(container), self |-> NoSelf, call |-> NoCall]
    ELSE IF CheckNonEmpty(client_ids) # ""
    THEN [exc |-> CheckNonEmpty(client_ids), self |-> NoSelf, call |-> NoCall]
    ELSE IF check_callable(fn) # ""
    THEN [exc |-> check_callable(fn), self |-> NoSelf, call |-> NoCall]
    ELSE LET call == Probe(client_ids, fn, out)
         IN  IF call.exc # ""
             THEN [exc |-> call.exc, self |-> NoSelf, call |-> call]
             ELSE [exc |-> "",
                   self |-> [client_ids |-> client_ids,
                             create_tf_dataset_fn |-> fn,
                             output_types |-> call.ds.output_types,
                             output_shapes |-> call.ds.output_shapes],
                   call |-> call]

\* The call storing the signature of the dataset it has just made.
FieldsOverwritten(obj, tf_dataset) ==
    [obj EXCEPT !.output_types = tf_dataset.output_types,
                !.output_shapes = tf_dataset.output_shapes]

\* The fields after create_tf_dataset_for_client: lines 60-74 assign none.
FieldsAfterCall(obj, tf_dataset) == obj

\* Lines 71-74 once the conversion function has been called: how the
\* call ends, what it returns, the comparisons made.
Validate(obj, client_id, call) ==
    IF call.exc # ""
    THEN [error |-> Raise(call.exc), returned |-> NoDataset, compared |-> 0,
          call |-> call, self |-> obj]
    ELSE LET types == assert_nested_equal(call.ds.output_types, obj.output_types,
                                          client_id)
         IN  IF types.exc # ""
             THEN [error |-> types, returned |-> NoDataset, compared |-> 1,
                   call |-> call, self |-> FieldsAfterCall(obj, call.ds)]
             ELSE LET shapes == assert_nested_equal(call.ds.output_shapes,
                                                    obj.output_shapes, client_id)
                  IN  IF shapes.exc # ""
                      THEN [error |-> shapes, returned |-> NoDataset, compared |-> 2,
                            call |-> call, self |-> FieldsAfterCall(obj, call.ds)]
                      ELSE [error |-> NoError, returned |-> call.ds, compared |-> 2,
                            call |-> call, self |-> FieldsAfterCall(obj, call.ds)]

\* The call answering for the first client id from what the constructor
\* saw, without calling the conversion function again.
CachedForFirstClient(obj, client_id, out) ==
    IF client_id = obj.client_ids[1]
    THEN [error |-> NoError,
          returned |-> [output_types |-> obj.output_types,
                        output_shapes |-> obj.output_shapes],
          compared |-> 0, call |-> NoCall, self |-> obj]
    ELSE Validate(obj, client_id, Invoke(obj.create_tf_dataset_fn, client_id, out))

\* The call refusing an identifier that is not among the client ids.
MembersOnly(obj, client_id, out) ==
    IF \E i \in DOMAIN obj.client_ids : obj.client_ids[i] = client_id
    THEN Validate(obj, client_id, Invoke(obj.create_tf_dataset_fn, client_id, out))
    ELSE [error |-> Raise("ValueError:unknown_client"), returned |-> NoDataset,
          compared |-> 0, call |-> NoCall, self |-> obj]

\* create_tf_dataset_for_client, lines 60-74.
create_tf_dataset_for_client(obj, client_id, out) ==
    Validate(obj, client_id, Invoke(obj.create_tf_dataset_fn, client_id, out))

\* The orders in which list(dict.keys()) may give the keys.
KeyOrders(dict) ==
    {k \in [1..Cardinality(DOMAIN dict) -> DOMAIN dict] :
        \A i, j \in DOMAIN k : k[i] = k[j] => i = j}

\* Lines 99-101.
client_ids_to_paths(path, names) ==
    [filename \in {names[i] : i \in DOMAIN names} |-> join(path, filename)]

\* create_from_dir, lines 99-104.
create_from_dir(path, listing, callable, keys, out) ==
    IF ~listing.ok
    THEN [exc |-> "OSError:listdir", self |-> NoSelf, call |-> NoCall]
    ELSE FilePerUserClientData("list", keys,
             Lambda(callable, client_ids_to_paths(path, listing.names)), out)

NoCalls == [fn_count |-> 0, fn_first |-> "", fn_last |-> "",
            file_count |-> 0, file_last |-> <<>>]

\* The record of the calls, one call later.
Logged(log, call) ==
    [fn_count   |-> IF call.invoked THEN log.fn_count + 1 ELSE log.fn_count,
     fn_first   |-> IF call.invoked /\ log.fn_count = 0 THEN call.arg ELSE log.fn_first,
     fn_last    |-> IF call.invoked THEN call.arg ELSE log.fn_last,
     file_count |-> IF call.file_invoked THEN log.file_count + 1 ELSE log.file_count,
     file_last  |-> IF call.file_invoked THEN call.file_arg ELSE log.file_last]

NoOp == [op |-> "none", arg |-> <<>>, error |-> NoError, call |-> NoCall,
         returned |-> NoDataset, compared |-> 0, value |-> <<>>]

Init ==
    /\ phase = "start"
    /\ self = NoSelf
    /\ calls = NoCalls
    /\ nGets = 0
    /\ lastOp = NoOp
    /\ made = [op |-> "none", arg |-> <<>>]

\* What a constructor that ended as r leaves behind.
Constructed(op, arg, r) ==
    /\ phase' = IF r.exc = "" THEN "built" ELSE "failed"
    /\ self' = r.self
    /\ calls' = Logged(calls, r.call)
    /\ lastOp' = [NoOp EXCEPT !.op = op, !.arg = arg, !.error = Raise(r.exc),
                              !.call = r.call]
    /\ made' = [op |-> op, arg |-> arg]
    /\ UNCHANGED nGets

Construct ==
    /\ phase = "start"
    /\ \E container \in {"list", "tuple"}, client_ids \in ClientIdLists,
          callable \in BOOLEAN, out \in Outcomes :
          \E r \in {FilePerUserClientData(container, client_ids, UserFn(callable), out)} :
             Constructed("__init__",
                         [container |-> container, client_ids |-> client_ids,
                          callable |-> callable], r)

CreateFromDir ==
    /\ phase = "start"
    /\ \E path \in Paths, listing \in Listings, callable \in BOOLEAN, out \in Outcomes :
          \E keys \in KeyOrders(client_ids_to_paths(path, listing.names)) :
          \E r \in {create_from_dir(path, listing, callable, keys, out)} :
             Constructed("create_from_dir",
                         [path |-> path, listing |-> listing, callable |-> callable], r)

Get ==
    /\ phase = "built"
    /\ nGets < MaxCalls
    /\ \E client_id \in Ids, out \in Outcomes :
          \E r \in {create_tf_dataset_for_client(self, client_id, out)} :
              /\ self' = r.self
              /\ calls' = Logged(calls, r.call)
              /\ lastOp' = [NoOp EXCEPT !.op = "get", !.arg = client_id,
                                        !.error = r.error, !.call = r.call,
                                        !.returned = r.returned,
                                        !.compared = r.compared]
    /\ nGets' = nGets + 1
    /\ UNCHANGED <<phase, made>>

\* The property client_ids, lines 56-58.
ReadClientIds ==
    /\ phase = "built"
    /\ lastOp' = [NoOp EXCEPT !.op = "client_ids", !.value = self.client_ids]
    /\ UNCHANGED <<phase, self, calls, nGets, made>>

\* The property output_types, lines 76-78.
ReadOutputTypes ==
    /\ phase = "built"
    /\ lastOp' = [NoOp EXCEPT !.op = "output_types", !.value = self.output_types]
    /\ UNCHANGED <<phase, self, calls, nGets, made>>

\* The property output_shapes, lines 80-82.
ReadOutputShapes ==
    /\ phase = "built"
    /\ lastOp' = [NoOp EXCEPT !.op = "output_shapes", !.value = self.output_shapes]
    /\ UNCHANGED <<phase, self, calls, nGets, made>>

Next ==
    \/ Construct
    \/ CreateFromDir
    \/ Get
    \/ ReadClientIds
    \/ ReadOutputTypes
    \/ ReadOutputShapes

Spec == Init /\ [][Next]_vars

----------------------------------------------------------------------------
\* Properties.

\* What the specification calls InvalidArgument: the errors of lines 43-46.
InvalidArgument == {"TypeError:check_type", "ValueError:empty", "TypeError:check_callable"}

Range(seq) == {seq[i] : i \in DOMAIN seq}

\* Two leaves hold the same value: the same element type; the same rank
\* (known or not) and the same size, known or not, in every position.
SameLeaf(x, y) ==
    /\ x.cls = y.cls
    /\ x.name = y.name
    /\ x.known = y.known
    /\ Len(x.dims) = Len(y.dims)
    /\ \A i \in 1..Len(x.dims) : x.dims[i].value = y.dims[i].value

\* The dataset has the nesting of the reference signature.
SameNesting(ds, obj) ==
    /\ DOMAIN ds.output_types = DOMAIN obj.output_types
    /\ DOMAIN ds.output_shapes = DOMAIN obj.output_shapes

\* The dataset's signature is the reference signature, leaf by leaf.
IdenticalSignature(ds, obj) ==
    /\ SameNesting(ds, obj)
    /\ \A p \in DOMAIN ds.output_types : SameLeaf(ds.output_types[p], obj.output_types[p])
    /\ \A p \in DOMAIN ds.output_shapes : SameLeaf(ds.output_shapes[p], obj.output_shapes[p])

\* The last operation was a create_tf_dataset_for_client call in which the
\* conversion function returned a dataset.
GotDataset == lastOp.op = "get" /\ lastOp.call.invoked /\ lastOp.call.exc = ""

Succeeded == lastOp.error.exc = "" /\ lastOp.returned = lastOp.call.ds

\* C1: whenever the conversion function returns, for the requested
\* identifier, a dataset whose type and shape signature is identical to the
\* one probed at construction, create_tf_dataset_for_client succeeds and
\* returns that very dataset.
C1_IdenticalSignaturesSucceed ==
    (GotDataset /\ IdenticalSignature(lastOp.call.ds, self)) => Succeeded

\* Some leaf of the dataset differs in value from the reference's leaf.
SomeLeafDiffers(ds, obj) ==
    \/ \E p \in DOMAIN ds.output_types : ~SameLeaf(ds.output_types[p], obj.output_types[p])
    \/ \E p \in DOMAIN ds.output_shapes : ~SameLeaf(ds.output_shapes[p], obj.output_shapes[p])

\* The error is the one of line 68 for the client asked for, and carries a
\* leaf of the dataset and the leaf of the reference it differs from.
IsShapeMismatchFor(error, client_id, ds, obj) ==
    /\ error.exc = "ValueError:mismatch"
    /\ error.id = client_id
    /\ ~SameLeaf(error.x, error.y)
    /\ \/ \E p \in DOMAIN ds.output_types :
             error.x = ds.output_types[p] /\ error.y = obj.output_types[p]
       \/ \E p \in DOMAIN ds.output_shapes :
             error.x = ds.output_shapes[p] /\ error.y = obj.output_shapes[p]

\* C2: when the dataset of an identifier other than the first has the
\* nesting of the reference and a leaf whose value differs from the
\* reference's, the call raises the mismatch error naming that identifier
\* and carrying the two differing leaves, and returns no dataset.
C2_DifferingLeafIsShapeMismatch ==
    (/\ GotDataset
     /\ lastOp.arg \in Range(self.client_ids)
     /\ lastOp.arg # self.client_ids[1]
     /\ SameNesting(lastOp.call.ds, self)
     /\ SomeLeafDiffers(lastOp.call.ds, self))
    => /\ IsShapeMismatchFor(lastOp.error, lastOp.arg, lastOp.call.ds, self)
       /\ lastOp.returned = NoDataset

\* C3: a constructor call with an empty client_ids raises one of the
\* argument errors whether or not the function is callable, before the
\* function is called; so an object that exists has a client id.
C3_EmptyIdsInvalidArgument ==
    /\ (lastOp.op = "__init__" /\ lastOp.arg.client_ids = <<>>)
          => /\ phase = "failed"
             /\ lastOp.error.exc \in InvalidArgument
             /\ calls.fn_count = 0
    /\ phase = "built" => self.client_ids # <<>>

C3_Witness ==
    /\ lastOp.op = "__init__"
    /\ lastOp.arg.container = "list"
    /\ lastOp.arg.client_ids = <<>>
    /\ ~lastOp.arg.callable
    /\ lastOp.error.exc = "ValueError:empty"

\* Some shape of the structure has a dimension of unknown size.
HasWildcard(shapes) ==
    \E p \in DOMAIN shapes : \E i \in 1..Len(shapes[p].dims) : shapes[p].dims[i].value = None

\* C4: a dataset whose signature has the nesting of the reference, shapes
\* of known rank, the same concrete leaf values and unknown dimensions in
\* the same positions is returned, without the mismatch error.
C4_WildcardsNotCompared ==
    (/\ GotDataset
     /\ IdenticalSignature(lastOp.call.ds, self)
     /\ HasWildcard(self.output_shapes)
     /\ \A p \in DOMAIN self.output_shapes : self.output_shapes[p].known)
    => /\ lastOp.error.exc # "ValueError:mismatch"
       /\ lastOp.returned = lastOp.call.ds

\* C5: every create_tf_dataset_for_client call enters the conversion
\* function once, with the identifier asked for, and compares what it
\* returns; an object that has served n calls has had its function entered
\* n + 1 times, first with the first client id.
C5_NoCaching ==
    /\ phase = "built" => /\ calls.fn_count = nGets + 1
                          /\ calls.fn_first = self.client_ids[1]
    /\ lastOp.op = "get" => /\ lastOp.call.invoked
                            /\ lastOp.call.arg = lastOp.arg
                            /\ calls.fn_last = lastOp.arg
                            /\ (lastOp.call.exc = "" => lastOp.compared >= 1)

C5_Witness ==
    /\ nGets = 2
    /\ lastOp.op = "get"
    /\ lastOp.arg = self.client_ids[1]
    /\ calls.fn_count = 3
    /\ lastOp.compared = 2

\* C6: once the object exists no call and no property read changes a
\* field of it, and the properties return the fields.
C6_FieldsUnchanged ==
    [][phase = "built" =>
          /\ self' = self
          /\ (lastOp'.op = "client_ids" => lastOp'.value = self.client_ids)
          /\ (lastOp'.op = "output_types" => lastOp'.value = self.output_types)
          /\ (lastOp'.op = "output_shapes" => lastOp'.value = self.output_shapes)]_vars

C6_Witness ==
    /\ phase = "built"
    /\ lastOp.op = "get"
    /\ lastOp.error.exc = "ValueError:mismatch"
    /\ lastOp.error.x.cls = "TensorShape"
    /\ self.output_shapes # lastOp.call.ds.output_shapes

\* The directory path without a separator at its end.
Directory(path) ==
    IF path # <<>> /\ path[Len(path)] = "/" THEN SubSeq(path, 1, Len(path) - 1) ELSE path

\* The path of the entry `name` of the directory.
FullPath(path, name) == Directory(path) \o <<"/", name>>

\* C7: create_from_dir on a directory with entries, when the probe
\* succeeds, returns an object with one client id per entry name and no
\* other; the file function is called with the joined path of the entry
\* asked for; on a directory without entries it raises the error of the
\* empty list without calling the file function.
C7_CreateFromDir ==
    made.op = "create_from_dir" /\ made.arg.listing.ok =>
       /\ (made.arg.listing.names = <<>>) =>
             /\ phase = "failed"
             /\ lastOp.error.exc = "ValueError:empty"
             /\ calls.fn_count = 0 /\ calls.file_count = 0
       /\ (made.arg.listing.names # <<>> /\ made.arg.callable
             /\ lastOp.op = "create_from_dir" /\ ~lastOp.call.user_raised)
             => phase = "built"
       /\ phase = "built" =>
             /\ Len(self.client_ids) = Len(made.arg.listing.names)
             /\ Range(self.client_ids) = Range(made.arg.listing.names)
             /\ Cardinality(Range(self.client_ids)) = Len(self.client_ids)
             /\ calls.file_count >= 1
       /\ lastOp.call.file_invoked =>
             /\ lastOp.call.arg \in Range(made.arg.listing.names)
             /\ lastOp.call.file_arg = FullPath(made.arg.path, lastOp.call.arg)

C7_Witness ==
    /\ made.op = "create_from_dir"
    /\ made.arg.path = <<"d">>
    /\ Len(self.client_ids) = 2
    /\ lastOp.op = "get"
    /\ lastOp.arg = self.client_ids[2]
    /\ lastOp.call.file_arg = <<"d", "/", lastOp.arg>>
    /\ Succeeded

\* The comparison of lines 62-69 finds nothing to raise for the dataset.
MatchesReference(ds, obj) ==
    /\ SameNesting(ds, obj)
    /\ \A p \in DOMAIN ds.output_types :
          LeafNe(ds.output_types[p], obj.output_types[p]) = "False"
    /\ \A p \in DOMAIN ds.output_shapes :
          LeafNe(ds.output_shapes[p], obj.output_shapes[p]) = "False"

C9_FailurePropagates ==
    lastOp.call.user_raised =>
       /\ lastOp.error.exc = "CollaboratorFailure"
       /\ lastOp.returned = NoDataset
       /\ lastOp.compared = 0
       /\ lastOp.op \in {"__init__", "create_from_dir"} =>
             phase = "failed" /\ self = NoSelf /\ calls.fn_count = 1
       /\ lastOp.op = "get" => calls.fn_count = nGets + 1 /\ phase = "built"

C9_Witness ==
    /\ lastOp.op = "get"
    /\ lastOp.call.user_raised
    /\ lastOp.error.exc = "CollaboratorFailure"
    /\ nGets = 2

\* The leaves of a dataset in the order of comparison: the types, then
\* the shapes, each depth first and left to right.
RECURSIVE InOrder(_, _)
InOrder(nested, paths) ==
    IF paths = {} THEN <<>>
    ELSE LET last == CHOOSE p \in paths : \A q \in paths \ {p} : PathBefore(q, p)
         IN  InOrder(nested, paths \ {last}) \o <<nested[last]>>

Leaves(types, shapes) == InOrder(types, DOMAIN types) \o InOrder(shapes, DOMAIN shapes)

Differing(xs, ys) == {i \in 1..Len(xs) : ~SameLeaf(xs[i], ys[i])}

FirstOf(S) == CHOOSE i \in S : \A j \in S : i <= j

\* C10: when more than one leaf of a dataset with the nesting of the
\* reference differs from the reference's, the error carries the first
\* differing pair in the order types before shapes, depth first, left to right.
C10_FirstMismatchReported ==
    (GotDataset /\ SameNesting(lastOp.call.ds, self)) =>
       LET xs == Leaves(lastOp.call.ds.output_types, lastOp.call.ds.output_shapes)
           ys == Leaves(self.output_types, self.output_shapes)
       IN  Cardinality(Differing(xs, ys)) > 1 =>
              /\ lastOp.error.exc = "ValueError:mismatch"
              /\ lastOp.error.x = xs[FirstOf(Differing(xs, ys))]
              /\ lastOp.error.y = ys[FirstOf(Differing(xs, ys))]
              /\ lastOp.error.id = lastOp.arg

====
